---- MODULE Spec2Model ----
(***************************************************************************)
(* Model of the static Huffman codec of huffman.c: frequency counting,     *)
(* min-heap, tree construction, code generation, bit writer / bit reader,  *)
(* compress_file and decompress_file.  huffman2.c is a second copy of the  *)
(* codec; the functions in which it differs from huffman.c (heap_insert,   *)
(* build_huffman_tree over it, compress_file, decompress_file) are         *)
(* modelled beside the first copy's, with a 2 appended to their names.     *)
(*                                                                         *)
(* Pointers to HuffmanNode are indices into an arena `nodes` (a sequence   *)
(* in allocation order); NULL is 0.  C arrays indexed from 0 are kept as   *)
(* TLA+ sequences, element i of the C array being element i+1 here.        *)
(* uint64_t counters are unbounded naturals: no counter approaches 2^64    *)
(* for the inputs enumerated here.                                         *)
(***************************************************************************)
EXTENDS Integers, Sequences, FiniteSets, TLC

VARIABLES
    in_file,    \* bytes of the file at input_path of compress_file
    huf_file,   \* the compressed file: [exists, hdr, frag, stream, room]
    c_ret,      \* return value of compress_file (-1: not called yet)
    c_tree,     \* tree built inside compress_file
    c_codes,    \* codes[256] generated inside compress_file
    out_file,   \* the file at output_path of decompress_file: [exists, data, room]
    d_ret,      \* return value of decompress_file (-1: none returned)
    d_tree,     \* tree rebuilt inside decompress_file
    tamper,     \* what happened to the compressed file between the two calls
    phase,      \* "input", "compressed", "decompressed", or "bits"
    bw,         \* BitWriter under test: [fp, buffer, bit_count]
    br,         \* BitReader under test: [pos, buffer, bit_count]
    wlog,       \* bits handed to bitwriter_write_bit, in call order
    rlog,       \* bits returned by bitreader_read_bit, in call order
    bflushed,   \* bitwriter_flush has run
    c_wfail,    \* a write to the output stream failed inside compress_file
    d_wfail,    \* a write to the output stream failed inside decompress_file
    d_bits,     \* bits the decoding loop of decompress_file read, in order
    t_freq,     \* frequencies[256] handed to build_huffman_tree
    t_st,       \* build_huffman_tree's nodes, heap and locals left, right
    t_i,        \* loop index i of the loop creating the leaf nodes
    t_pc,       \* where build_huffman_tree is: "leaves", "combine", "done"
    t_root,     \* the node build_huffman_tree returned
    t_codes,    \* codes[256] generated from t_root
    h_copy,     \* the source file whose heap is exercised: 1 huffman.c, 2 huffman2.c
    h_nodes,    \* the nodes created for the heap under test
    h_heap,     \* the MinHeap under test: [data, capacity, size]
    h_op,       \* the last call on the heap: "none", "insert", "extract"
    h_min,      \* what the last heap_extract_min returned
    h_calls,    \* number of calls made on the heap
    d_pc,       \* where decompress_file is: "idle", "loop", "returned"
    d_pre,      \* what decompress_file holds when it enters the decoding loop
    d_st,       \* the state of the decoding loop
    c2_ret,     \* return value of compress_file of huffman2.c (-1: none)
    huf2_file,  \* the compressed file written by compress_file of huffman2.c
    d2_ret,     \* return value of decompress_file of huffman2.c (-1: none)
    out2_file   \* the file written by decompress_file of huffman2.c

codec_vars == <<in_file, huf_file, c_ret, c_tree, c_codes, out_file, d_ret,
                d_tree, tamper, phase, c_wfail, d_wfail, d_bits>>

bit_vars == <<bw, br, wlog, rlog, bflushed>>

tree_vars == <<t_freq, t_st, t_i, t_pc, t_root, t_codes>>

heap_vars == <<h_copy, h_nodes, h_heap, h_op, h_min, h_calls>>

dec_vars == <<d_pc, d_pre, d_st>>

copy2_vars == <<c2_ret, huf2_file, d2_ret, out2_file>>

vars == <<codec_vars, bit_vars, tree_vars, heap_vars, dec_vars, copy2_vars>>

outside_codec == <<bit_vars, tree_vars, heap_vars, dec_vars, copy2_vars>>

outside_bits == <<codec_vars, tree_vars, heap_vars, dec_vars, copy2_vars>>

outside_tree == <<codec_vars, bit_vars, heap_vars, dec_vars, copy2_vars>>

outside_heap == <<codec_vars, bit_vars, tree_vars, dec_vars, copy2_vars>>

outside_dec == <<bit_vars, tree_vars, heap_vars, copy2_vars>>

outside_copy2 == <<codec_vars, bit_vars, tree_vars, heap_vars, dec_vars>>

-----------------------------------------------------------------------------
(* Bounds of the model *)

MaxLen == 5          \* longest enumerated input, in bytes
MaxBits == 9         \* most bits written in the bit writer / reader runs

(* Program constants *)

NumSymbols == 256    \* size of the frequency table and of codes[]
BufferSize == 512    \* size of the traversal buffer of generate_codes
WordSize == 8        \* sizeof(uint64_t)
BitsPerByte == 8
NULL == 0

Byte == 0 .. (NumSymbols - 1)
Bit == {0, 1}

HeaderWords == 1 + NumSymbols               \* total_chars + frequencies[256]
HeaderSize == WordSize * HeaderWords        \* 2056 bytes

(* Enumerated inputs *)

Alphabet == {97, 98, 99}                                    \* 'a' 'b' 'c'

Abracadabra == <<97, 98, 114, 97, 99, 97, 100, 97, 98, 114, 97>>

Abceddf == <<97, 98, 99, 101, 100, 100, 102>>

RECURSIVE SeqsUpTo(_, _)
SeqsUpTo(S, n) ==
    IF n = 0 THEN {<<>>}
    ELSE LET shorter == SeqsUpTo(S, n - 1)
         IN  shorter \cup {Append(s, x) : s \in {t \in shorter : Len(t) = n - 1}, x \in S}

Inputs == SeqsUpTo(Alphabet, MaxLen) \cup {Abracadabra, Abceddf}

(* Sizes a compressed file is cut to when its header is truncated *)
HeaderCuts == {0, 7, 8, 12, HeaderSize - WordSize, HeaderSize - 1}

(* Byte values written over a bitstream byte *)
OverwriteBytes == {0, 85, 255}

Pow2(n) == 2 ^ n

\* F applied to the value of v: v is evaluated once, before F, so that the
\* state threaded through a loop is a value at every iteration
Eval(v, F(_)) == CHOOSE r \in {F(x) : x \in {v}} : TRUE

-----------------------------------------------------------------------------
(* HuffmanNode and the min-heap *)

create_node(ch, freq) ==
    [ch |-> ch, freq |-> freq, left |-> NULL, right |-> NULL]

\* data holds the size live entries data[0 .. size-1]
heap_create(capacity) ==
    [data |-> <<>>, capacity |-> capacity, size |-> 0]

heap_swap(data, a, b) ==
    [data EXCEPT ![a + 1] = data[b + 1], ![b + 1] = data[a + 1]]

RECURSIVE heapify_up(_, _, _)
heapify_up(nodes, data, idx) ==
    IF idx > 0
    THEN LET parent == (idx - 1) \div 2
         IN  IF nodes[data[parent + 1]].freq <= nodes[data[idx + 1]].freq
             THEN data
             ELSE Eval(heap_swap(data, parent, idx),
                       LAMBDA swapped : heapify_up(nodes, swapped, parent))
    ELSE data

\* heapify_down looking at the left child only
RECURSIVE heapify_down_left_only(_, _, _, _)
heapify_down_left_only(nodes, data, size, idx) ==
    LET left == idx * 2 + 1
        smallest == IF left < size /\ nodes[data[left + 1]].freq < nodes[data[idx + 1]].freq
                    THEN left ELSE idx
    IN  IF smallest = idx
        THEN data
        ELSE Eval([data |-> heap_swap(data, idx, smallest), idx |-> smallest],
                  LAMBDA n : heapify_down_left_only(nodes, n.data, size, n.idx))

RECURSIVE heapify_down(_, _, _, _)
heapify_down(nodes, data, size, idx) ==
    LET left == idx * 2 + 1
        right == idx * 2 + 2
        s1 == IF left < size /\ nodes[data[left + 1]].freq < nodes[data[idx + 1]].freq
              THEN left ELSE idx
        smallest == IF right < size /\ nodes[data[right + 1]].freq < nodes[data[s1 + 1]].freq
                    THEN right ELSE s1
    IN  IF smallest = idx
        THEN data
        ELSE Eval([data |-> heap_swap(data, idx, smallest), idx |-> smallest],
                  LAMBDA n : heapify_down(nodes, n.data, size, n.idx))

heap_insert(nodes, h, node) ==
    Eval(Append(h.data, node),
         LAMBDA stored :
             [data |-> heapify_up(nodes, stored, h.size),
              capacity |-> IF h.size >= h.capacity THEN h.capacity * 2 ELSE h.capacity,
              size |-> h.size + 1])

\* heap_insert of huffman2.c storing the node without moving it up
heap_insert2_stores_only(nodes, h, node) ==
    [data |-> Append(h.data, node),
     capacity |-> IF h.size >= h.capacity
                  THEN (IF h.capacity * 2 < 16 THEN 16 ELSE h.capacity * 2)
                  ELSE h.capacity,
     size |-> h.size + 1]

\* heap_insert of huffman2.c: size is incremented before heapify_up, and a
\* grown capacity is at least 16
heap_insert2(nodes, h, node) ==
    Eval(Append(h.data, node),
         LAMBDA stored :
             [data |-> heapify_up(nodes, stored, (h.size + 1) - 1),
              capacity |-> IF h.size >= h.capacity
                           THEN (IF h.capacity * 2 < 16 THEN 16 ELSE h.capacity * 2)
                           ELSE h.capacity,
              size |-> h.size + 1])

\* result: [min, heap]; min = NULL on an empty heap
heap_extract_min(nodes, h) ==
    IF h.size = 0
    THEN [min |-> NULL, heap |-> h]
    ELSE Eval(SubSeq([h.data EXCEPT ![1] = h.data[h.size]], 1, h.size - 1),
              LAMBDA live :
                  [min |-> h.data[1],
                   heap |-> [data |-> heapify_down(nodes, live, h.size - 1, 0),
                             capacity |-> h.capacity,
                             size |-> h.size - 1]])

-----------------------------------------------------------------------------
(* Tree construction *)

\* The state of build_huffman_tree: [nodes, heap, left, right]; left and
\* right are the locals of the combining loop, NULL before its first iteration
tree_start(uniqueCount) ==
    [nodes |-> <<>>, heap |-> heap_create(uniqueCount * 2 + 4),
     left |-> NULL, right |-> NULL]

\* the body of the leaf loop for an i with frequencies[i] > 0
insert_leaf(st, i, freq) ==
    Eval(Append(st.nodes, create_node(i, freq)),
      LAMBDA nodes1 :
        [st EXCEPT !.nodes = nodes1,
                   !.heap = heap_insert(nodes1, st.heap, Len(nodes1))])

\* the least i' >= i with frequencies[i'] > 0; NumSymbols when there is none
next_nonzero(frequencies, i) ==
    IF \A j \in i .. (NumSymbols - 1) : frequencies[j] = 0
    THEN NumSymbols
    ELSE CHOOSE j \in i .. (NumSymbols - 1) :
             /\ frequencies[j] > 0
             /\ \A k \in i .. (j - 1) : frequencies[k] = 0

\* the loop creating one leaf per nonzero frequency, i = 0 .. 255 ascending;
\* iterations whose frequencies[i] is 0 do nothing and are stepped over
RECURSIVE create_leaf_nodes(_, _, _)
create_leaf_nodes(frequencies, i, st) ==
    Eval(next_nonzero(frequencies, i),
      LAMBDA next :
        IF next = NumSymbols
        THEN st
        ELSE Eval(insert_leaf(st, next, frequencies[next]),
               LAMBDA st1 : create_leaf_nodes(frequencies, next + 1, st1)))

\* combine_step making the first extracted node the right child
combine_step_swapped(st) ==
    Eval(heap_extract_min(st.nodes, st.heap),
      LAMBDA left :
    Eval(heap_extract_min(st.nodes, left.heap),
      LAMBDA right :
    Eval(Append(st.nodes,
             [create_node(0, st.nodes[left.min].freq + st.nodes[right.min].freq)
                 EXCEPT !.left = right.min, !.right = left.min]),
      LAMBDA nodes1 :
        [nodes |-> nodes1, heap |-> heap_insert(nodes1, right.heap, Len(nodes1)),
         left |-> left.min, right |-> right.min])))

\* combine_step that does not link the second extracted node to the parent
combine_step_drops_right(st) ==
    Eval(heap_extract_min(st.nodes, st.heap),
      LAMBDA left :
    Eval(heap_extract_min(st.nodes, left.heap),
      LAMBDA right :
    Eval(Append(st.nodes,
             [create_node(0, st.nodes[left.min].freq + st.nodes[right.min].freq)
                 EXCEPT !.left = left.min]),
      LAMBDA nodes1 :
        [nodes |-> nodes1, heap |-> heap_insert(nodes1, right.heap, Len(nodes1)),
         left |-> left.min, right |-> right.min])))

\* the body of the combining loop
combine_step(st) ==
    Eval(heap_extract_min(st.nodes, st.heap),
      LAMBDA left :
    Eval(heap_extract_min(st.nodes, left.heap),
      LAMBDA right :
    Eval(Append(st.nodes,
             [create_node(0, st.nodes[left.min].freq + st.nodes[right.min].freq)
                 EXCEPT !.left = left.min, !.right = right.min]),
      LAMBDA nodes1 :
        [nodes |-> nodes1, heap |-> heap_insert(nodes1, right.heap, Len(nodes1)),
         left |-> left.min, right |-> right.min])))

\* the loop combining the two smallest nodes until one tree remains
RECURSIVE combine_two_smallest(_)
combine_two_smallest(st) ==
    IF st.heap.size > 1
    THEN Eval(combine_step(st), LAMBDA st1 : combine_two_smallest(st1))
    ELSE st

\* result: [nodes, root]; root = NULL when no frequency is nonzero
build_huffman_tree(frequencies) ==
    LET uniqueCount == Cardinality({i \in Byte : frequencies[i] > 0})
    IN  IF uniqueCount = 0
        THEN [nodes |-> <<>>, root |-> NULL]
        ELSE Eval(create_leaf_nodes(frequencies, 0, tree_start(uniqueCount)),
               LAMBDA s1 :
                 IF s1.heap.size = 1
                 THEN [nodes |-> s1.nodes, root |-> heap_extract_min(s1.nodes, s1.heap).min]
                 ELSE Eval(combine_two_smallest(s1),
                        LAMBDA s2 :
                          [nodes |-> s2.nodes,
                           root |-> heap_extract_min(s2.nodes, s2.heap).min]))

\* build_huffman_tree of huffman2.c: the same loops over its own heap_insert
RECURSIVE create_leaf_nodes2(_, _, _)
create_leaf_nodes2(freq, i, st) ==
    Eval(next_nonzero(freq, i),
      LAMBDA next :
        IF next = NumSymbols
        THEN st
        ELSE Eval(Append(st.nodes, create_node(next, freq[next])),
               LAMBDA nodes1 :
             Eval([st EXCEPT !.nodes = nodes1,
                             !.heap = heap_insert2(nodes1, st.heap, Len(nodes1))],
               LAMBDA st1 : create_leaf_nodes2(freq, next + 1, st1))))

RECURSIVE combine_two_smallest2(_)
combine_two_smallest2(st) ==
    IF st.heap.size > 1
    THEN Eval(heap_extract_min(st.nodes, st.heap),
           LAMBDA a :
         Eval(heap_extract_min(st.nodes, a.heap),
           LAMBDA b :
         Eval(Append(st.nodes,
                  [create_node(0, st.nodes[a.min].freq + st.nodes[b.min].freq)
                      EXCEPT !.left = a.min, !.right = b.min]),
           LAMBDA nodes1 :
         Eval([nodes |-> nodes1, heap |-> heap_insert2(nodes1, b.heap, Len(nodes1)),
               left |-> a.min, right |-> b.min],
           LAMBDA st1 : combine_two_smallest2(st1)))))
    ELSE st

build_huffman_tree2(freq) ==
    LET unique == Cardinality({i \in Byte : freq[i] > 0})
    IN  IF unique = 0
        THEN [nodes |-> <<>>, root |-> NULL]
        ELSE Eval(create_leaf_nodes2(freq, 0, tree_start(unique)),
               LAMBDA s1 :
                 IF s1.heap.size = 1
                 THEN [nodes |-> s1.nodes, root |-> heap_extract_min(s1.nodes, s1.heap).min]
                 ELSE Eval(combine_two_smallest2(s1),
                        LAMBDA s2 :
                          [nodes |-> s2.nodes,
                           root |-> heap_extract_min(s2.nodes, s2.heap).min]))

-----------------------------------------------------------------------------
(* Code generation.  A Code is [null, bits]: bits is the C string, a       *)
(* sequence of the characters "0" and "1"; null says the pointer is NULL.  *)

NullCode == [null |-> TRUE, bits |-> <<>>]

strdup(s) == [null |-> FALSE, bits |-> s]

\* generate_codes_recursive writing '0' for the right branch too
RECURSIVE generate_codes_recursive_right_zero(_, _, _, _, _)
generate_codes_recursive_right_zero(nodes, node, buffer, depth, codes) ==
    IF node = NULL
    THEN codes
    ELSE IF nodes[node].left = NULL /\ nodes[node].right = NULL
    THEN [codes EXCEPT ![nodes[node].ch] = strdup(SubSeq(buffer, 1, depth))]
    ELSE Eval([left |-> nodes[node].left, right |-> nodes[node].right,
               buffer |-> SubSeq(buffer, 1, depth), depth |-> depth + 1],
           LAMBDA n :
         Eval(IF n.left # NULL
              THEN generate_codes_recursive_right_zero(nodes, n.left,
                       Append(n.buffer, "0"), n.depth, codes)
              ELSE codes,
           LAMBDA afterLeft :
              IF n.right # NULL
              THEN generate_codes_recursive_right_zero(nodes, n.right,
                       Append(n.buffer, "0"), n.depth, afterLeft)
              ELSE afterLeft))

\* buffer holds the characters buffer[0 .. depth-1] written on the way down
RECURSIVE generate_codes_recursive(_, _, _, _, _)
generate_codes_recursive(nodes, node, buffer, depth, codes) ==
    IF node = NULL
    THEN codes
    ELSE IF nodes[node].left = NULL /\ nodes[node].right = NULL
    THEN [codes EXCEPT ![nodes[node].ch] = strdup(SubSeq(buffer, 1, depth))]
    ELSE Eval([left |-> nodes[node].left, right |-> nodes[node].right,
               buffer |-> SubSeq(buffer, 1, depth), depth |-> depth + 1],
           LAMBDA n :
         Eval(IF n.left # NULL
              THEN generate_codes_recursive(nodes, n.left,
                       Append(n.buffer, "0"), n.depth, codes)
              ELSE codes,
           LAMBDA afterLeft :
              IF n.right # NULL
              THEN generate_codes_recursive(nodes, n.right,
                       Append(n.buffer, "1"), n.depth, afterLeft)
              ELSE afterLeft))

\* generate_codes without the special case of a tree that is a single node
generate_codes_no_single_case(tree) ==
    LET codes0 == [i \in Byte |-> NullCode]
    IN  IF tree.root = NULL
        THEN codes0
        ELSE generate_codes_recursive(tree.nodes, tree.root, <<>>, 0, codes0)

\* generate_codes starting the traversal at depth 1
generate_codes_starts_at_one(tree) ==
    LET codes0 == [i \in Byte |-> NullCode]
        root == tree.root
    IN  IF root = NULL
        THEN codes0
        ELSE IF tree.nodes[root].left = NULL /\ tree.nodes[root].right = NULL
             THEN [codes0 EXCEPT ![tree.nodes[root].ch] = strdup(<<"0">>)]
             ELSE generate_codes_recursive(tree.nodes, root, <<"0">>, 1, codes0)

generate_codes(tree) ==
    LET codes0 == [i \in Byte |-> NullCode]
        root == tree.root
    IN  IF root = NULL
        THEN codes0
        ELSE IF tree.nodes[root].left = NULL /\ tree.nodes[root].right = NULL
             THEN [codes0 EXCEPT ![tree.nodes[root].ch] = strdup(<<"0">>)]
             ELSE generate_codes_recursive(tree.nodes, root, <<>>, 0, codes0)

-----------------------------------------------------------------------------
(* Bit writer and bit reader *)

BitAt(x, k) == (x \div Pow2(k)) % 2

\* x | (b << k) on an unsigned char
OrBit(x, b, k) == IF b = 1 /\ BitAt(x, k) = 0 THEN (x + Pow2(k)) % 256 ELSE x

bitwriter_create(fp) == [fp |-> fp, buffer |-> 0, bit_count |-> 0]

\* bitwriter_write_bit packing the next bit at position bit_count (LSB first)
bitwriter_write_bit_lsb_first(w, bit) ==
    LET buffer1 == OrBit(w.buffer, bit % 2, w.bit_count)
        count1 == w.bit_count + 1
    IN  IF count1 = BitsPerByte
        THEN [fp |-> Append(w.fp, buffer1), buffer |-> 0, bit_count |-> 0]
        ELSE [fp |-> w.fp, buffer |-> buffer1, bit_count |-> count1]

bitwriter_write_bit(w, bit) ==
    LET buffer1 == OrBit(w.buffer, bit % 2, 7 - w.bit_count)
        count1 == w.bit_count + 1
    IN  IF count1 = BitsPerByte
        THEN [fp |-> Append(w.fp, buffer1), buffer |-> 0, bit_count |-> 0]
        ELSE [fp |-> w.fp, buffer |-> buffer1, bit_count |-> count1]

RECURSIVE bitwriter_write_bits_from_string(_, _)
bitwriter_write_bits_from_string(w, bits) ==
    IF bits = <<>>
    THEN w
    ELSE Eval([w |-> bitwriter_write_bit(w, IF Head(bits) = "1" THEN 1 ELSE 0),
               p |-> Tail(bits)],
              LAMBDA n : bitwriter_write_bits_from_string(n.w, n.p))

bitwriter_flush(w) ==
    IF w.bit_count > 0
    THEN [fp |-> Append(w.fp, w.buffer), buffer |-> 0, bit_count |-> 0]
    ELSE w

bitreader_create == [pos |-> 0, buffer |-> 0, bit_count |-> 0]

\* result: [ok, bit, at, br]; ok = 0 at end of file.  fp is the byte stream
\* read.  at tells which bit of the stream was returned, counting the bits of
\* the stream from 0 in the order bitwriter_write_bit packs them: the bit at
\* shift s of byte n (from 0) is bit 8n + 7 - s of the stream
bitreader_read_bit(r, fp) ==
    IF r.bit_count = 0 /\ r.pos >= Len(fp)
    THEN [ok |-> 0, bit |-> 0, at |-> 0, br |-> r]
    ELSE LET filled == IF r.bit_count = 0
                       THEN [pos |-> r.pos + 1, buffer |-> fp[r.pos + 1],
                             bit_count |-> BitsPerByte]
                       ELSE r
             pos == filled.bit_count - 1
             bit == BitAt(filled.buffer, 7 - pos)
         IN  [ok |-> 1, bit |-> bit,
              at |-> BitsPerByte * (filled.pos - 1) + 7 - (7 - pos),
              br |-> [filled EXCEPT !.bit_count = filled.bit_count - 1]]

-----------------------------------------------------------------------------
(* Files.  The compressed file is [exists, hdr, frag, stream]: hdr is the  *)
(* sequence of complete 8-byte words of the header region that are         *)
(* present, frag the number of bytes of a cut trailing word (0..7), and    *)
(* stream the bytes from offset 2056 on.  A file shorter than the header   *)
(* has an empty stream.                                                    *)

\* room: the number of bytes the volume accepts for the file before writes
\* to it fail; NoLimit when every write succeeds
NoLimit == -1

NoFile == [exists |-> FALSE, hdr |-> <<>>, frag |-> 0, stream |-> <<>>, room |-> NoLimit]

NoOutput == [exists |-> FALSE, data |-> <<>>, room |-> NoLimit]

\* the number of bytes, of n bytes written at offset off, that reach a file
\* with the given room
Accepted(room, off, n) ==
    IF room = NoLimit \/ off + n <= room THEN n
    ELSE IF room > off THEN room - off ELSE 0

EmptyTree == [nodes |-> <<>>, root |-> NULL]

NoCodes == [i \in Byte |-> NullCode]

FileSize(f) == WordSize * Len(f.hdr) + f.frag + Len(f.stream)

\* fopen(path, "wb"): the file exists and is empty
fopen_wb_huf(f) == [exists |-> TRUE, hdr |-> <<>>, frag |-> 0, stream |-> <<>>, room |-> f.room]

fopen_wb_out(f) == [exists |-> TRUE, data |-> <<>>, room |-> f.room]

\* fwrite(ptr, sizeof(uint64_t), n, out) of the words ws at the start of an
\* empty file, then the bytes of the bit writer: the file afterwards
fwrite_huf(f, ws, bytes) ==
    LET got == Accepted(f.room, 0, WordSize * Len(ws))
        full == got = WordSize * Len(ws)
    IN  [f EXCEPT !.hdr = SubSeq(ws, 1, got \div WordSize),
                  !.frag = got % WordSize,
                  !.stream = IF full
                             THEN SubSeq(bytes, 1, Accepted(f.room, got, Len(bytes)))
                             ELSE <<>>]

\* fputc(c, out) for each byte of data in turn: the file afterwards
fputc_out(f, data) ==
    [f EXCEPT !.data = SubSeq(data, 1, Accepted(f.room, 0, Len(data)))]

\* fread(ptr, sizeof(uint64_t), n, in) with wpos words already consumed:
\* the number of complete items read
fread_words(f, wpos, n) ==
    LET avail == Len(f.hdr) - wpos
    IN  IF avail >= n THEN n ELSE IF avail > 0 THEN avail ELSE 0

-----------------------------------------------------------------------------
(* compress_file *)

\* first pass storing 1 in the counter instead of incrementing it
RECURSIVE first_pass_assigns_one(_, _, _)
first_pass_assigns_one(input, i, st) ==
    IF i > Len(input)
    THEN st
    ELSE Eval([frequencies |-> [st.frequencies EXCEPT ![input[i]] = 1],
               total_chars |-> st.total_chars + 1],
              LAMBDA st1 : first_pass_assigns_one(input, i + 1, st1))

\* first pass: count frequencies and measure total chars
RECURSIVE first_pass(_, _, _)
first_pass(input, i, st) ==
    IF i > Len(input)
    THEN st
    ELSE Eval([frequencies |-> [st.frequencies EXCEPT ![input[i]] = @ + 1],
               total_chars |-> st.total_chars + 1],
              LAMBDA st1 : first_pass(input, i + 1, st1))

\* the header with every frequency written one slot early
write_header_shifted(total_chars, frequencies) ==
    <<total_chars>> \o [k \in 1 .. NumSymbols |-> frequencies[k % NumSymbols]]

\* the header as written: total_chars, then frequencies[0 .. 255]
write_header(total_chars, frequencies) ==
    <<total_chars>> \o [k \in 1 .. NumSymbols |-> frequencies[k - 1]]

\* second pass: encode and write compressed bits; result [ok, bw]
RECURSIVE second_pass(_, _, _, _)
second_pass(input, i, codes, w) ==
    IF i > Len(input)
    THEN [ok |-> 1, bw |-> w]
    ELSE LET uc == input[i]
         IN  IF codes[uc].null
             THEN [ok |-> 0, bw |-> w]
             ELSE Eval(bitwriter_write_bits_from_string(w, codes[uc].bits),
                       LAMBDA w1 : second_pass(input, i + 1, codes, w1))

\* compress_file with the output file opened before the tree is checked
compress_file_opens_output_first(input, out) ==
    Eval(first_pass(input, 1, [frequencies |-> [i \in Byte |-> 0], total_chars |-> 0]),
      LAMBDA counted :
    Eval(build_huffman_tree(counted.frequencies),
      LAMBDA tree :
        IF tree.root = NULL
        THEN [ret |-> 0, out |-> fopen_wb_huf(out), tree |-> tree, codes |-> NoCodes,
              wfail |-> FALSE]
        ELSE
    Eval(generate_codes(tree),
      LAMBDA codes :
    Eval([opened |-> fopen_wb_huf(out),
          header |-> write_header(counted.total_chars, counted.frequencies)],
      LAMBDA o :
        IF Accepted(out.room, 0, WordSize) # WordSize
        THEN [ret |-> 0, out |-> fwrite_huf(o.opened, <<o.header[1]>>, <<>>),
              tree |-> tree, codes |-> codes, wfail |-> TRUE]
        ELSE IF Accepted(out.room, WordSize, WordSize * NumSymbols) # WordSize * NumSymbols
        THEN [ret |-> 0, out |-> fwrite_huf(o.opened, o.header, <<>>),
              tree |-> tree, codes |-> codes, wfail |-> TRUE]
        ELSE
    Eval(second_pass(input, 1, codes, bitwriter_create(<<>>)),
      LAMBDA enc :
    Eval(bitwriter_flush(enc.bw).fp,
      LAMBDA bytes :
        [ret |-> enc.ok,
         out |-> fwrite_huf(o.opened, o.header, bytes),
         tree |-> tree,
         codes |-> codes,
         wfail |-> Accepted(out.room, HeaderSize, Len(bytes)) # Len(bytes)]))))))

\* result: [ret, out, tree, codes, wfail]; out is the file at output_path
\* afterwards, wfail says that an fwrite on it wrote less than asked
compress_file(input, out) ==
    Eval(first_pass(input, 1, [frequencies |-> [i \in Byte |-> 0], total_chars |-> 0]),
      LAMBDA counted :
    Eval(build_huffman_tree(counted.frequencies),
      LAMBDA tree :
        IF tree.root = NULL
        THEN [ret |-> 0, out |-> out, tree |-> tree, codes |-> NoCodes, wfail |-> FALSE]
        ELSE
    Eval(generate_codes(tree),
      LAMBDA codes :
    Eval([opened |-> fopen_wb_huf(out),
          header |-> write_header(counted.total_chars, counted.frequencies)],
      LAMBDA o :
        IF Accepted(out.room, 0, WordSize) # WordSize
        THEN [ret |-> 0, out |-> fwrite_huf(o.opened, <<o.header[1]>>, <<>>),
              tree |-> tree, codes |-> codes, wfail |-> TRUE]
        ELSE IF Accepted(out.room, WordSize, WordSize * NumSymbols) # WordSize * NumSymbols
        THEN [ret |-> 0, out |-> fwrite_huf(o.opened, o.header, <<>>),
              tree |-> tree, codes |-> codes, wfail |-> TRUE]
        ELSE
    Eval(second_pass(input, 1, codes, bitwriter_create(<<>>)),
      LAMBDA enc :
    Eval(bitwriter_flush(enc.bw).fp,
      LAMBDA bytes :
        [ret |-> enc.ok,
         out |-> fwrite_huf(o.opened, o.header, bytes),
         tree |-> tree,
         codes |-> codes,
         wfail |-> Accepted(out.room, HeaderSize, Len(bytes)) # Len(bytes)]))))))

\* compress_file of huffman2.c: an empty input is detected by total == 0,
\* before the tree is built; the rest is the same code over its own
\* build_huffman_tree.  generate_codes, the bit writer and the bit reader of
\* huffman2.c are those of huffman.c statement for statement.
compress_file2(input, out) ==
    Eval(first_pass(input, 1, [frequencies |-> [i \in Byte |-> 0], total_chars |-> 0]),
      LAMBDA counted :
        IF counted.total_chars = 0
        THEN [ret |-> 0, out |-> out, tree |-> EmptyTree, codes |-> NoCodes,
              wfail |-> FALSE]
        ELSE
    Eval(build_huffman_tree2(counted.frequencies),
      LAMBDA tree :
        IF tree.root = NULL
        THEN [ret |-> 0, out |-> out, tree |-> tree, codes |-> NoCodes, wfail |-> FALSE]
        ELSE
    Eval(generate_codes(tree),
      LAMBDA codes :
    Eval([opened |-> fopen_wb_huf(out),
          header |-> write_header(counted.total_chars, counted.frequencies)],
      LAMBDA o :
        IF Accepted(out.room, 0, WordSize) # WordSize
        THEN [ret |-> 0, out |-> fwrite_huf(o.opened, <<o.header[1]>>, <<>>),
              tree |-> tree, codes |-> codes, wfail |-> TRUE]
        ELSE IF Accepted(out.room, WordSize, WordSize * NumSymbols) # WordSize * NumSymbols
        THEN [ret |-> 0, out |-> fwrite_huf(o.opened, o.header, <<>>),
              tree |-> tree, codes |-> codes, wfail |-> TRUE]
        ELSE
    Eval(second_pass(input, 1, codes, bitwriter_create(<<>>)),
      LAMBDA enc :
    Eval(bitwriter_flush(enc.bw).fp,
      LAMBDA bytes :
        [ret |-> enc.ok,
         out |-> fwrite_huf(o.opened, o.header, bytes),
         tree |-> tree,
         codes |-> codes,
         wfail |-> Accepted(out.room, HeaderSize, Len(bytes)) # Len(bytes)]))))))

-----------------------------------------------------------------------------
(* decompress_file *)

\* The state of the decoding loop: [br, node, data, eof, crashed, bits].
\* data holds the bytes handed to fputc, so written = Len(data); eof says the
\* loop was left on end of file; crashed says a NULL node was dereferenced;
\* bits holds what bitreader_read_bit returned, [bit, at], in call order.
decode_start(tree) ==
    [br |-> bitreader_create, node |-> tree.root, data |-> <<>>,
     eof |-> FALSE, crashed |-> FALSE, bits |-> <<>>]

\* decode_iteration going round again at the end of the file
decode_iteration_no_break(tree, fp, st) ==
    LET rd == bitreader_read_bit(st.br, fp)
    IN  IF rd.ok = 0
        THEN st
        ELSE IF st.node = NULL
        THEN [st EXCEPT !.crashed = TRUE, !.br = rd.br,
                        !.bits = Append(@, [bit |-> rd.bit, at |-> rd.at])]
        ELSE LET next == IF rd.bit = 0 THEN tree.nodes[st.node].left
                                       ELSE tree.nodes[st.node].right
             IN  IF next = NULL
                 THEN [st EXCEPT !.crashed = TRUE, !.node = next, !.br = rd.br,
                                 !.bits = Append(@, [bit |-> rd.bit, at |-> rd.at])]
                 ELSE IF tree.nodes[next].left = NULL /\ tree.nodes[next].right = NULL
                 THEN [st EXCEPT !.data = Append(@, tree.nodes[next].ch),
                                 !.node = tree.root, !.br = rd.br,
                                 !.bits = Append(@, [bit |-> rd.bit, at |-> rd.at])]
                 ELSE [st EXCEPT !.node = next, !.br = rd.br,
                                 !.bits = Append(@, [bit |-> rd.bit, at |-> rd.at])]

\* one iteration of the loop: read a bit, go to a child, emit at a leaf
decode_iteration(tree, fp, st) ==
    LET rd == bitreader_read_bit(st.br, fp)
    IN  IF rd.ok = 0
        THEN [st EXCEPT !.eof = TRUE]
        ELSE IF st.node = NULL
        THEN [st EXCEPT !.crashed = TRUE, !.br = rd.br, !.bits = Append(@, [bit |-> rd.bit, at |-> rd.at])]
        ELSE LET next == IF rd.bit = 0 THEN tree.nodes[st.node].left
                                       ELSE tree.nodes[st.node].right
             IN  IF next = NULL
                 THEN [st EXCEPT !.crashed = TRUE, !.node = next, !.br = rd.br,
                                 !.bits = Append(@, [bit |-> rd.bit, at |-> rd.at])]
                 ELSE IF tree.nodes[next].left = NULL /\ tree.nodes[next].right = NULL
                 THEN [st EXCEPT !.data = Append(@, tree.nodes[next].ch),
                                 !.node = tree.root, !.br = rd.br,
                                 !.bits = Append(@, [bit |-> rd.bit, at |-> rd.at])]
                 ELSE [st EXCEPT !.node = next, !.br = rd.br,
                                 !.bits = Append(@, [bit |-> rd.bit, at |-> rd.at])]

\* the loop runs while written < total_chars and no break has happened
decode_running(st, total_chars) ==
    Len(st.data) < total_chars /\ ~st.eof /\ ~st.crashed

\* regular decoding: read bits and traverse the tree; result: the final state
RECURSIVE decode_loop(_, _, _, _)
decode_loop(tree, fp, st, total_chars) ==
    IF decode_running(st, total_chars)
    THEN Eval(decode_iteration(tree, fp, st),
              LAMBDA st1 : decode_loop(tree, fp, st1, total_chars))
    ELSE st

\* read header ignoring the item counts fread returns; words that are not
\* in the file read as 0
read_header_unchecked(in) ==
    [ok |-> TRUE,
     total_chars |-> IF Len(in.hdr) >= 1 THEN in.hdr[1] ELSE 0,
     frequencies |-> [i \in Byte |-> IF Len(in.hdr) >= i + 2 THEN in.hdr[i + 2] ELSE 0]]

\* read header; result: [ok, total_chars, frequencies], ok = FALSE when either
\* fread returns fewer items than asked for
read_header(in) ==
    IF fread_words(in, 0, 1) # 1
    THEN [ok |-> FALSE, total_chars |-> 0, frequencies |-> [i \in Byte |-> 0]]
    ELSE IF fread_words(in, 1, NumSymbols) # NumSymbols
    THEN [ok |-> FALSE, total_chars |-> in.hdr[1], frequencies |-> [i \in Byte |-> 0]]
    ELSE [ok |-> TRUE, total_chars |-> in.hdr[1],
          frequencies |-> [i \in Byte |-> in.hdr[i + 2]]]

\* decompress_file entering the decoding loop whatever tree was rebuilt
decompress_before_loop_no_root_check(in, out) ==
    IF ~in.exists
    THEN [returned |-> TRUE, ret |-> 0, out |-> out, tree |-> EmptyTree,
          total_chars |-> 0, wfail |-> FALSE]
    ELSE
    Eval(read_header(in),
      LAMBDA header :
        IF ~header.ok
        THEN [returned |-> TRUE, ret |-> 0, out |-> out, tree |-> EmptyTree,
              total_chars |-> header.total_chars, wfail |-> FALSE]
        ELSE
    Eval(build_huffman_tree(header.frequencies),
      LAMBDA tree :
        LET present == {i \in Byte : header.frequencies[i] > 0}
            uniqueCount == Cardinality(present)
            onlyChar == IF present = {} THEN 0
                        ELSE CHOOSE i \in present : \A j \in present : j <= i
            opened == fopen_wb_out(out)
        IN  IF uniqueCount = 1
            THEN [returned |-> TRUE, ret |-> 1,
                  out |-> fputc_out(opened, [k \in 1 .. header.total_chars |-> onlyChar]),
                  tree |-> tree, total_chars |-> header.total_chars,
                  wfail |-> Accepted(out.room, 0, header.total_chars)
                                # header.total_chars]
            ELSE [returned |-> FALSE, ret |-> -1, out |-> opened, tree |-> tree,
                  total_chars |-> header.total_chars, wfail |-> FALSE]))

\* decompress_file up to the decoding loop; result: [returned, ret, out, tree,
\* total_chars, wfail], returned = TRUE when the function has returned ret
decompress_before_loop(in, out) ==
    IF ~in.exists
    THEN [returned |-> TRUE, ret |-> 0, out |-> out, tree |-> EmptyTree,
          total_chars |-> 0, wfail |-> FALSE]
    ELSE
    Eval(read_header(in),
      LAMBDA header :
        IF ~header.ok
        THEN [returned |-> TRUE, ret |-> 0, out |-> out, tree |-> EmptyTree,
              total_chars |-> header.total_chars, wfail |-> FALSE]
        ELSE
    Eval(build_huffman_tree(header.frequencies),
      LAMBDA tree :
        IF tree.root = NULL /\ header.total_chars > 0
        THEN [returned |-> TRUE, ret |-> 0, out |-> out, tree |-> tree,
              total_chars |-> header.total_chars, wfail |-> FALSE]
        ELSE
        LET present == {i \in Byte : header.frequencies[i] > 0}
            uniqueCount == Cardinality(present)
            onlyChar == IF present = {} THEN 0
                        ELSE CHOOSE i \in present : \A j \in present : j <= i
            opened == fopen_wb_out(out)
        IN  IF uniqueCount = 1
            THEN [returned |-> TRUE, ret |-> 1,
                  out |-> fputc_out(opened, [k \in 1 .. header.total_chars |-> onlyChar]),
                  tree |-> tree, total_chars |-> header.total_chars,
                  wfail |-> Accepted(out.room, 0, header.total_chars)
                                # header.total_chars]
            ELSE [returned |-> FALSE, ret |-> -1, out |-> opened, tree |-> tree,
                  total_chars |-> header.total_chars, wfail |-> FALSE]))

\* decompress_file from the end of the decoding loop on; a crashed process
\* returns nothing (ret = -1)
decompress_after_loop(pre, st) ==
    [ret |-> IF st.crashed THEN -1
             ELSE IF Len(st.data) = pre.total_chars THEN 1 ELSE 0,
     out |-> fputc_out(pre.out, st.data),
     tree |-> pre.tree,
     bits |-> st.bits,
     wfail |-> Accepted(pre.out.room, 0, Len(st.data)) # Len(st.data)]

\* result: [ret, out, tree, bits, wfail]; out is the file at output_path
\* afterwards, bits the bits read by the decoding loop, wfail says that an
\* fputc on the output file failed
decompress_file(in, out) ==
    Eval(decompress_before_loop(in, out),
      LAMBDA pre :
        IF pre.returned
        THEN [ret |-> pre.ret, out |-> pre.out, tree |-> pre.tree, bits |-> <<>>,
              wfail |-> pre.wfail]
        ELSE Eval(decode_loop(pre.tree, in.stream, decode_start(pre.tree),
                      pre.total_chars),
               LAMBDA st : decompress_after_loop(pre, st)))

\* decompress_file of huffman2.c: the same code over its own
\* build_huffman_tree
decompress_file2(in, out) ==
    IF ~in.exists
    THEN [ret |-> 0, out |-> out, tree |-> EmptyTree, bits |-> <<>>, wfail |-> FALSE]
    ELSE
    Eval(read_header(in),
      LAMBDA header :
        IF ~header.ok
        THEN [ret |-> 0, out |-> out, tree |-> EmptyTree, bits |-> <<>>,
              wfail |-> FALSE]
        ELSE
    Eval(build_huffman_tree2(header.frequencies),
      LAMBDA root :
        IF root.root = NULL /\ header.total_chars > 0
        THEN [ret |-> 0, out |-> out, tree |-> root, bits |-> <<>>, wfail |-> FALSE]
        ELSE
        LET present == {i \in Byte : header.frequencies[i] > 0}
            unique == Cardinality(present)
            onlyChar == IF present = {} THEN 0
                        ELSE CHOOSE i \in present : \A j \in present : j <= i
            opened == fopen_wb_out(out)
        IN  IF unique = 1
            THEN [ret |-> 1,
                  out |-> fputc_out(opened, [k \in 1 .. header.total_chars |-> onlyChar]),
                  tree |-> root, bits |-> <<>>,
                  wfail |-> Accepted(out.room, 0, header.total_chars)
                                # header.total_chars]
            ELSE Eval(decode_loop(root, in.stream, decode_start(root),
                          header.total_chars),
                   LAMBDA st :
                     [ret |-> IF st.crashed THEN -1
                              ELSE IF Len(st.data) = header.total_chars THEN 1 ELSE 0,
                      out |-> fputc_out(opened, st.data),
                      tree |-> root,
                      bits |-> st.bits,
                      wfail |-> Accepted(out.room, 0, Len(st.data)) # Len(st.data)])))

-----------------------------------------------------------------------------
(* The codec: one compress_file call, an optional change of the compressed *)
(* file by its holder, one decompress_file call.                           *)

BitIdle ==
    /\ bw = bitwriter_create(<<>>)
    /\ br = bitreader_create
    /\ wlog = <<>>
    /\ rlog = <<>>
    /\ bflushed = FALSE

CodecIdle ==
    /\ huf_file = NoFile
    /\ c_ret = -1
    /\ c_tree = EmptyTree
    /\ c_codes = NoCodes
    /\ out_file = NoOutput
    /\ d_ret = -1
    /\ d_tree = EmptyTree
    /\ tamper = "none"
    /\ c_wfail = FALSE
    /\ d_wfail = FALSE
    /\ d_bits = <<>>

TreeIdle ==
    /\ t_freq = [i \in Byte |-> 0]
    /\ t_st = tree_start(0)
    /\ t_i = 0
    /\ t_pc = "idle"
    /\ t_root = NULL
    /\ t_codes = NoCodes

HeapIdle ==
    /\ h_copy = 1
    /\ h_nodes = <<>>
    /\ h_heap = heap_create(0)
    /\ h_op = "none"
    /\ h_min = NULL
    /\ h_calls = 0

NoPre ==
    [returned |-> FALSE, ret |-> -1, out |-> NoOutput, tree |-> EmptyTree,
     total_chars |-> 0, wfail |-> FALSE]

DecIdle ==
    /\ d_pc = "idle"
    /\ d_pre = NoPre
    /\ d_st = decode_start(EmptyTree)

Copy2Idle ==
    /\ c2_ret = -1
    /\ huf2_file = NoFile
    /\ d2_ret = -1
    /\ out2_file = NoOutput

Init ==
    /\ in_file \in Inputs
    /\ CodecIdle
    /\ phase = "input"
    /\ BitIdle
    /\ TreeIdle
    /\ HeapIdle
    /\ DecIdle
    /\ Copy2Idle

CompressFile ==
    /\ phase = "input"
    /\ \E res \in {compress_file(in_file, huf_file)} :
           /\ c_ret' = res.ret
           /\ huf_file' = res.out
           /\ c_tree' = res.tree
           /\ c_codes' = res.codes
           /\ c_wfail' = res.wfail
    /\ phase' = "compressed"
    /\ UNCHANGED <<in_file, out_file, d_ret, d_tree, tamper, d_wfail, d_bits>>
    /\ UNCHANGED outside_codec

TruncateBitstream ==
    /\ phase = "compressed"
    /\ tamper = "none"
    /\ c_ret = 1
    /\ \E k \in 1 .. Len(huf_file.stream) :
           huf_file' = [huf_file EXCEPT
                           !.stream = SubSeq(huf_file.stream, 1, Len(huf_file.stream) - k)]
    /\ tamper' = "truncated_bitstream"
    /\ UNCHANGED <<in_file, c_ret, c_tree, c_codes, out_file, d_ret, d_tree, phase,
                   c_wfail, d_wfail, d_bits>>
    /\ UNCHANGED outside_codec

TruncateHeader ==
    /\ phase = "compressed"
    /\ tamper = "none"
    /\ c_ret = 1
    /\ \E n \in HeaderCuts :
           huf_file' = [exists |-> TRUE,
                        hdr |-> SubSeq(huf_file.hdr, 1, n \div WordSize),
                        frag |-> n % WordSize,
                        stream |-> <<>>,
                        room |-> huf_file.room]
    /\ tamper' = "truncated_header"
    /\ UNCHANGED <<in_file, c_ret, c_tree, c_codes, out_file, d_ret, d_tree, phase,
                   c_wfail, d_wfail, d_bits>>
    /\ UNCHANGED outside_codec

OverwriteBitstream ==
    /\ phase = "compressed"
    /\ tamper = "none"
    /\ c_ret = 1
    /\ \E i \in 1 .. Len(huf_file.stream), v \in OverwriteBytes :
           /\ v # huf_file.stream[i]
           /\ huf_file' = [huf_file EXCEPT !.stream[i] = v]
    /\ tamper' = "overwritten_bitstream"
    /\ UNCHANGED <<in_file, c_ret, c_tree, c_codes, out_file, d_ret, d_tree, phase,
                   c_wfail, d_wfail, d_bits>>
    /\ UNCHANGED outside_codec

DecompressFile ==
    /\ phase = "compressed"
    /\ \E res \in {decompress_file(huf_file, out_file)} :
           /\ d_ret' = res.ret
           /\ out_file' = res.out
           /\ d_tree' = res.tree
           /\ d_wfail' = res.wfail
           /\ d_bits' = res.bits
    /\ phase' = "decompressed"
    /\ UNCHANGED <<in_file, huf_file, c_ret, c_tree, c_codes, tamper, c_wfail>>
    /\ UNCHANGED outside_codec

Next ==
    \/ CompressFile
    \/ TruncateBitstream
    \/ TruncateHeader
    \/ OverwriteBitstream
    \/ DecompressFile

Spec == Init /\ [][Next]_vars

-----------------------------------------------------------------------------
(* The codec writing to volumes that run out of room: the files at the two *)
(* output paths accept a limited number of bytes, after which every write  *)
(* to them fails.                                                          *)

\* room of the volume holding the compressed file
HufRooms == {NoLimit, 0, WordSize - 1, WordSize, HeaderSize - 1, HeaderSize, HeaderSize + 1}

\* room of the volume holding the decompressed file
OutRooms == {NoLimit, 0, 1, 3}

IoInit ==
    /\ in_file \in Inputs
    /\ \E r \in HufRooms : huf_file = [NoFile EXCEPT !.room = r]
    /\ \E r \in OutRooms : out_file = [NoOutput EXCEPT !.room = r]
    /\ c_ret = -1
    /\ c_tree = EmptyTree
    /\ c_codes = NoCodes
    /\ d_ret = -1
    /\ d_tree = EmptyTree
    /\ tamper = "none"
    /\ c_wfail = FALSE
    /\ d_wfail = FALSE
    /\ d_bits = <<>>
    /\ phase = "input"
    /\ BitIdle
    /\ TreeIdle
    /\ HeapIdle
    /\ DecIdle
    /\ Copy2Idle

IoNext ==
    \/ CompressFile
    \/ DecompressFile

IoSpec == IoInit /\ [][IoNext]_vars

-----------------------------------------------------------------------------
(* The bit writer and the bit reader on their own: bits are written one by *)
(* one, the writer is flushed, and the bytes it produced are read back bit *)
(* by bit.                                                                 *)

BitInit ==
    /\ in_file = <<>>
    /\ CodecIdle
    /\ phase = "bits"
    /\ BitIdle
    /\ TreeIdle
    /\ HeapIdle
    /\ DecIdle
    /\ Copy2Idle

BwWriteBit ==
    /\ phase = "bits"
    /\ ~bflushed
    /\ Len(wlog) < MaxBits
    /\ \E bit \in Bit :
           /\ bw' = bitwriter_write_bit(bw, bit)
           /\ wlog' = Append(wlog, bit)
    /\ UNCHANGED <<br, rlog, bflushed>>
    /\ UNCHANGED outside_bits

BwFlush ==
    /\ phase = "bits"
    /\ ~bflushed
    /\ bw' = bitwriter_flush(bw)
    /\ bflushed' = TRUE
    /\ UNCHANGED <<br, wlog, rlog>>
    /\ UNCHANGED outside_bits

BrReadBit ==
    /\ phase = "bits"
    /\ bflushed
    /\ \E rd \in {bitreader_read_bit(br, bw.fp)} :
           /\ rd.ok = 1
           /\ br' = rd.br
           /\ rlog' = Append(rlog, rd.bit)
    /\ UNCHANGED <<bw, wlog, bflushed>>
    /\ UNCHANGED outside_bits

BitNext ==
    \/ BwWriteBit
    \/ BwFlush
    \/ BrReadBit

BitSpec == BitInit /\ [][BitNext]_vars

-----------------------------------------------------------------------------
(* build_huffman_tree step by step on frequency tables of a few byte       *)
(* values, followed by generate_codes on the tree it returns.  The weights *)
(* are small: no sum of frequencies approaches 2^64.                       *)

MaxWeight == 3       \* largest frequency in an enumerated table

TableSymbols == {0, 97, 98, 99, 255}

Tables ==
    {[i \in Byte |-> IF i \in TableSymbols THEN t[i] ELSE 0] :
        t \in [TableSymbols -> 0 .. MaxWeight]}

TreeInit ==
    /\ t_freq \in Tables
    /\ t_st = tree_start(0)
    /\ t_i = 0
    /\ t_pc = "idle"
    /\ t_root = NULL
    /\ t_codes = NoCodes
    /\ in_file = <<>>
    /\ CodecIdle
    /\ phase = "tree"
    /\ BitIdle
    /\ HeapIdle
    /\ DecIdle
    /\ Copy2Idle

\* count the nonzero frequencies; return NULL when there is none
TreeCount ==
    /\ t_pc = "idle"
    /\ LET uniqueCount == Cardinality({i \in Byte : t_freq[i] > 0})
       IN  IF uniqueCount = 0
           THEN /\ t_pc' = "done"
                /\ t_codes' = generate_codes([nodes |-> t_st.nodes, root |-> NULL])
                /\ UNCHANGED t_st
           ELSE /\ t_pc' = "leaves"
                /\ t_st' = tree_start(uniqueCount)
                /\ UNCHANGED t_codes
    /\ UNCHANGED <<t_freq, t_i, t_root>>
    /\ UNCHANGED outside_tree

\* the leaf loop up to and including its next iteration with frequencies[i] > 0
TreeLeaf ==
    /\ t_pc = "leaves"
    /\ next_nonzero(t_freq, t_i) < NumSymbols
    /\ \E next \in {next_nonzero(t_freq, t_i)} :
           /\ t_st' = insert_leaf(t_st, next, t_freq[next])
           /\ t_i' = next + 1
    /\ UNCHANGED <<t_freq, t_pc, t_root, t_codes>>
    /\ UNCHANGED outside_tree

\* the end of the leaf loop and the special case of a single leaf
TreeLeavesDone ==
    /\ t_pc = "leaves"
    /\ next_nonzero(t_freq, t_i) = NumSymbols
    /\ t_i' = NumSymbols
    /\ IF t_st.heap.size = 1
       THEN \E single \in {heap_extract_min(t_st.nodes, t_st.heap)} :
                /\ t_root' = single.min
                /\ t_st' = [t_st EXCEPT !.heap = single.heap]
                /\ t_codes' = generate_codes([nodes |-> t_st.nodes, root |-> single.min])
                /\ t_pc' = "done"
       ELSE /\ t_pc' = "combine"
            /\ UNCHANGED <<t_st, t_root, t_codes>>
    /\ UNCHANGED t_freq
    /\ UNCHANGED outside_tree

\* one iteration of the combining loop
TreeCombine ==
    /\ t_pc = "combine"
    /\ t_st.heap.size > 1
    /\ t_st' = combine_step(t_st)
    /\ UNCHANGED <<t_freq, t_i, t_pc, t_root, t_codes>>
    /\ UNCHANGED outside_tree

\* the end of the combining loop: the last node of the heap is the root
TreeReturn ==
    /\ t_pc = "combine"
    /\ t_st.heap.size <= 1
    /\ \E last \in {heap_extract_min(t_st.nodes, t_st.heap)} :
           /\ t_root' = last.min
           /\ t_st' = [t_st EXCEPT !.heap = last.heap]
           /\ t_codes' = generate_codes([nodes |-> t_st.nodes, root |-> last.min])
    /\ t_pc' = "done"
    /\ UNCHANGED <<t_freq, t_i>>
    /\ UNCHANGED outside_tree

TreeNext ==
    \/ TreeCount
    \/ TreeLeaf
    \/ TreeLeavesDone
    \/ TreeCombine
    \/ TreeReturn

TreeSpec == TreeInit /\ [][TreeNext]_vars

-----------------------------------------------------------------------------
(* The MinHeap on its own: any sequence of heap_insert and                 *)
(* heap_extract_min calls on a fresh heap, with the heap_insert of either  *)
(* source file.                                                            *)

MaxHeapCalls == 6    \* most calls made on the heap under test

HeapWeights == {1, 2, 3}

\* capacities the heap under test is created with: one that the inserts
\* outgrow, and the least one build_huffman_tree asks for
HeapCapacities == {2, 6}

HeapInit ==
    /\ h_copy \in {1, 2}
    /\ h_nodes = <<>>
    /\ \E capacity \in HeapCapacities : h_heap = heap_create(capacity)
    /\ h_op = "none"
    /\ h_min = NULL
    /\ h_calls = 0
    /\ in_file = <<>>
    /\ CodecIdle
    /\ phase = "heap"
    /\ BitIdle
    /\ TreeIdle
    /\ DecIdle
    /\ Copy2Idle

HeapInsert ==
    /\ phase = "heap"
    /\ h_calls < MaxHeapCalls
    /\ \E freq \in HeapWeights :
           \E nodes1 \in {Append(h_nodes, create_node(0, freq))} :
               /\ h_nodes' = nodes1
               /\ h_heap' = IF h_copy = 1
                             THEN heap_insert(nodes1, h_heap, Len(nodes1))
                             ELSE heap_insert2(nodes1, h_heap, Len(nodes1))
    /\ h_op' = "insert"
    /\ h_calls' = h_calls + 1
    /\ UNCHANGED <<h_copy, h_min>>
    /\ UNCHANGED outside_heap

HeapExtractMin ==
    /\ phase = "heap"
    /\ h_calls < MaxHeapCalls
    /\ \E res \in {heap_extract_min(h_nodes, h_heap)} :
           /\ h_min' = res.min
           /\ h_heap' = res.heap
    /\ h_op' = "extract"
    /\ h_calls' = h_calls + 1
    /\ UNCHANGED <<h_copy, h_nodes>>
    /\ UNCHANGED outside_heap

HeapNext ==
    \/ HeapInsert
    \/ HeapExtractMin

HeapSpec == HeapInit /\ [][HeapNext]_vars

-----------------------------------------------------------------------------
(* decompress_file step by step on files with a complete header that       *)
(* compress_file need not have written: any count, any small frequency     *)
(* table, any short bitstream.                                             *)

MaxTotal == 5        \* largest total_chars in an enumerated header
MaxStream == 2       \* longest enumerated bitstream, in bytes

HeaderSymbols == {97, 98, 99}

HeaderWeights == {0, 1, 2}

HeaderTables ==
    {[i \in Byte |-> IF i \in HeaderSymbols THEN t[i] ELSE 0] :
        t \in [HeaderSymbols -> HeaderWeights]}

StreamBytes == {0, 85, 255}

DecInit ==
    /\ \E total \in 0 .. MaxTotal, table \in HeaderTables,
          stream \in SeqsUpTo(StreamBytes, MaxStream) :
           huf_file = [exists |-> TRUE, hdr |-> write_header(total, table),
                       frag |-> 0, stream |-> stream, room |-> NoLimit]
    /\ in_file = <<>>
    /\ c_ret = -1
    /\ c_tree = EmptyTree
    /\ c_codes = NoCodes
    /\ out_file = NoOutput
    /\ d_ret = -1
    /\ d_tree = EmptyTree
    /\ tamper = "none"
    /\ c_wfail = FALSE
    /\ d_wfail = FALSE
    /\ d_bits = <<>>
    /\ phase = "decode"
    /\ DecIdle
    /\ Copy2Idle
    /\ BitIdle
    /\ TreeIdle
    /\ HeapIdle

\* decompress_file from its call to the decoding loop, or to its return
DecBegin ==
    /\ phase = "decode"
    /\ d_pc = "idle"
    /\ \E pre \in {decompress_before_loop(huf_file, out_file)} :
           /\ d_pre' = pre
           /\ out_file' = pre.out
           /\ d_tree' = pre.tree
           /\ IF pre.returned
              THEN /\ d_pc' = "returned"
                   /\ d_ret' = pre.ret
                   /\ d_wfail' = pre.wfail
                   /\ UNCHANGED d_st
              ELSE /\ d_pc' = "loop"
                   /\ d_st' = decode_start(pre.tree)
                   /\ UNCHANGED <<d_ret, d_wfail>>
    /\ UNCHANGED <<in_file, huf_file, c_ret, c_tree, c_codes, tamper, phase,
                   c_wfail, d_bits>>
    /\ UNCHANGED outside_dec

\* one iteration of the decoding loop
DecIterate ==
    /\ d_pc = "loop"
    /\ decode_running(d_st, d_pre.total_chars)
    /\ \E st \in {decode_iteration(d_tree, huf_file.stream, d_st)} :
           /\ d_st' = st
           /\ out_file' = fputc_out(d_pre.out, st.data)
           /\ d_bits' = st.bits
    /\ UNCHANGED <<in_file, huf_file, c_ret, c_tree, c_codes, d_ret, d_tree, tamper,
                   phase, c_wfail, d_wfail, d_pc, d_pre>>
    /\ UNCHANGED outside_dec

\* the end of the decoding loop and the return
DecReturn ==
    /\ d_pc = "loop"
    /\ ~decode_running(d_st, d_pre.total_chars)
    /\ \E res \in {decompress_after_loop(d_pre, d_st)} :
           /\ d_ret' = res.ret
           /\ out_file' = res.out
           /\ d_bits' = res.bits
           /\ d_wfail' = res.wfail
    /\ d_pc' = "returned"
    /\ UNCHANGED <<in_file, huf_file, c_ret, c_tree, c_codes, d_tree, tamper, phase,
                   c_wfail, d_pre, d_st>>
    /\ UNCHANGED outside_dec

DecNext ==
    \/ DecBegin
    \/ DecIterate
    \/ DecReturn

DecSpec == DecInit /\ [][DecNext]_vars

\* decompress_file is sequential code: its next step is always taken
DecFairSpec == DecSpec /\ WF_vars(DecNext)

-----------------------------------------------------------------------------
(* The two source files side by side: compress_file of each on the same    *)
(* input, decompress_file of each on the same compressed file, which is    *)
(* the one huffman.c wrote (changed by its holder or not) or a file with   *)
(* a complete header that nobody compressed.                               *)

HandedFiles ==
    {[exists |-> TRUE, hdr |-> write_header(total, table), frag |-> 0,
      stream |-> stream, room |-> NoLimit] :
        total \in 0 .. MaxTotal, table \in HeaderTables,
        stream \in SeqsUpTo(StreamBytes, MaxStream)}

EqInit ==
    /\ \/ /\ in_file \in Inputs
          /\ huf_file = NoFile
          /\ phase = "input"
       \/ /\ in_file = <<>>
          /\ huf_file \in HandedFiles
          /\ phase = "compressed"
    /\ c_ret = -1
    /\ c_tree = EmptyTree
    /\ c_codes = NoCodes
    /\ out_file = NoOutput
    /\ d_ret = -1
    /\ d_tree = EmptyTree
    /\ tamper = "none"
    /\ c_wfail = FALSE
    /\ d_wfail = FALSE
    /\ d_bits = <<>>
    /\ BitIdle
    /\ TreeIdle
    /\ HeapIdle
    /\ DecIdle
    /\ Copy2Idle

CompressFile2 ==
    /\ phase = "input"
    /\ c2_ret = -1
    /\ \E res \in {compress_file2(in_file, huf2_file)} :
           /\ c2_ret' = res.ret
           /\ huf2_file' = res.out
    /\ UNCHANGED <<d2_ret, out2_file>>
    /\ UNCHANGED outside_copy2

DecompressFile2 ==
    /\ phase = "decompressed"
    /\ d2_ret = -1
    /\ \E res \in {decompress_file2(huf_file, out2_file)} :
           /\ d2_ret' = res.ret
           /\ out2_file' = res.out
    /\ UNCHANGED <<c2_ret, huf2_file>>
    /\ UNCHANGED outside_copy2

EqNext ==
    \/ CompressFile
    \/ CompressFile2
    \/ TruncateBitstream
    \/ TruncateHeader
    \/ OverwriteBitstream
    \/ DecompressFile
    \/ DecompressFile2

EqSpec == EqInit /\ [][EqNext]_vars

-----------------------------------------------------------------------------
(* Properties *)

Distinct(input) == {input[i] : i \in DOMAIN input}

Occurrences(input, v) == Cardinality({i \in DOMAIN input : input[i] = v})

RECURSIVE SumOver(_, _)
SumOver(S, f) ==
    IF S = {} THEN 0
    ELSE LET x == CHOOSE y \in S : TRUE
         IN  f[x] + SumOver(S \ {x}, f)

HeaderIntact == tamper \in {"none", "truncated_bitstream", "overwritten_bitstream"}

\* C1: for every nonempty input, compress_file succeeds and decompress_file
\* of the produced blob succeeds and writes exactly the input bytes.
RoundTripIdentity ==
    (phase = "decompressed" /\ tamper = "none" /\ in_file # <<>>)
        => /\ c_ret = 1
           /\ d_ret = 1
           /\ out_file.exists
           /\ out_file.data = in_file

\* C2: compress_file of an empty input returns failure and the output file
\* is never opened, so no blob exists afterwards.
EmptyInputFails ==
    (phase \in {"compressed", "decompressed"} /\ in_file = <<>>)
        => /\ c_ret = 0
           /\ ~huf_file.exists
           /\ FileSize(huf_file) = 0

EmptyInputCompressed ==
    /\ phase = "compressed"
    /\ in_file = <<>>
    /\ c_ret = 0

\* C3: for an input that is one byte value v repeated n >= 1 times the code
\* book holds exactly one code, "0" for v, and decompress_file succeeds with
\* v repeated n times whatever bytes the bitstream holds.
DegenerateAlphabet ==
    (phase \in {"compressed", "decompressed"} /\ Cardinality(Distinct(in_file)) = 1)
        => LET v == in_file[1]
           IN  /\ c_ret = 1
               /\ {i \in Byte : ~c_codes[i].null} = {v}
               /\ c_codes[v].bits = <<"0">>
               /\ (phase = "decompressed" /\ HeaderIntact)
                      => /\ d_ret = 1
                         /\ out_file.exists
                         /\ out_file.data = [k \in 1 .. Len(in_file) |-> v]

DegenerateOverwrittenDecoded ==
    /\ phase = "decompressed"
    /\ Cardinality(Distinct(in_file)) = 1
    /\ Len(in_file) = 4
    /\ tamper = "overwritten_bitstream"
    /\ huf_file.stream = <<255>>
    /\ d_ret = 1

\* C4: every blob of a successful compress_file starts with a 2056-byte
\* header whose count is the input length and whose 256 frequencies are the
\* occurrence counts of the byte values, so the frequencies sum to the count.
HeaderIntegrity ==
    (phase \in {"compressed", "decompressed"} /\ c_ret = 1 /\ tamper = "none")
        => /\ Len(huf_file.hdr) = HeaderWords
           /\ huf_file.frag = 0
           /\ WordSize * Len(huf_file.hdr) = 2056
           /\ huf_file.hdr[1] = Len(in_file)
           /\ \A v \in Byte : huf_file.hdr[v + 2] = Occurrences(in_file, v)
           /\ SumOver({k \in 2 .. HeaderWords : huf_file.hdr[k] > 0}, huf_file.hdr)
                  = huf_file.hdr[1]

HeaderOfRepeatedBytes ==
    /\ phase = "compressed"
    /\ c_ret = 1
    /\ Cardinality(Distinct(in_file)) >= 2
    /\ \E v \in Byte : huf_file.hdr[v + 2] >= 2

\* C5: decompress_file of a produced blob (input with two or more distinct
\* byte values) whose bitstream lost one or more trailing bytes returns
\* failure.
TruncatedBitstreamFails ==
    (phase = "decompressed" /\ tamper = "truncated_bitstream"
        /\ Cardinality(Distinct(in_file)) >= 2)
        => d_ret = 0

\* C6: decompress_file of a file shorter than 2056 bytes returns failure and
\* never opens the output file.
TruncatedHeaderFails ==
    (phase = "decompressed" /\ FileSize(huf_file) < HeaderSize)
        => /\ d_ret = 0
           /\ ~out_file.exists
           /\ out_file.data = <<>>

TruncatedHeaderDecompressed ==
    /\ phase = "decompressed"
    /\ tamper = "truncated_header"
    /\ huf_file.exists
    /\ FileSize(huf_file) = HeaderSize - 1
    /\ d_ret = 0

\* the bit a reader working MSB-first returns on its k-th call (k >= 1)
MsbFirstBit(fp, k) == BitAt(fp[((k - 1) \div BitsPerByte) + 1], 7 - ((k - 1) % BitsPerByte))

\* C7: bitreader_read_bit yields the bits of each byte MSB-first, so the
\* bits it returns are the bits bitwriter_write_bit packed, in order.
BitOrderOnRead ==
    bflushed =>
        \A k \in 1 .. Len(rlog) :
            /\ rlog[k] = MsbFirstBit(bw.fp, k)
            /\ (k <= Len(wlog)) => (rlog[k] = wlog[k])

\* the codes of the input bytes, concatenated in input order, as bits
RECURSIVE CodeBits(_, _)
CodeBits(input, codes) ==
    IF input = <<>> THEN <<>>
    ELSE LET b == codes[Head(input)].bits
         IN  [k \in 1 .. Len(b) |-> IF b[k] = "1" THEN 1 ELSE 0]
                 \o CodeBits(Tail(input), codes)

\* bit j (0 = first written) of byte k of a packed stream, 0 past the end
PaddedBit(bits, k, j) ==
    LET n == BitsPerByte * (k - 1) + j + 1
    IN  IF n <= Len(bits) THEN bits[n] ELSE 0

PackedByte(bits, k) ==
    128 * PaddedBit(bits, k, 0) + 64 * PaddedBit(bits, k, 1)
        + 32 * PaddedBit(bits, k, 2) + 16 * PaddedBit(bits, k, 3)
        + 8 * PaddedBit(bits, k, 4) + 4 * PaddedBit(bits, k, 5)
        + 2 * PaddedBit(bits, k, 6) + PaddedBit(bits, k, 7)

\* C8: the bitstream of a produced blob is the concatenation of the codes of
\* the input bytes in input order, packed MSB-first, the last byte
\* zero-filled; it has ceil(L/8) bytes, L the sum of the code lengths.
BitstreamContent ==
    (phase \in {"compressed", "decompressed"} /\ c_ret = 1 /\ tamper = "none")
        => LET bits == CodeBits(in_file, c_codes)
               used == Distinct(in_file)
               L == SumOver(used, [v \in used |->
                                      Occurrences(in_file, v) * Len(c_codes[v].bits)])
           IN  /\ Len(bits) = L
               /\ Len(huf_file.stream) = (L + 7) \div 8
               /\ \A k \in 1 .. Len(huf_file.stream) :
                      huf_file.stream[k] = PackedByte(bits, k)

BitstreamWithPartialByte ==
    /\ phase = "compressed"
    /\ c_ret = 1
    /\ Len(huf_file.stream) >= 2
    /\ Len(CodeBits(in_file, c_codes)) % BitsPerByte # 0
    /\ \E k \in 1 .. Len(huf_file.stream) : huf_file.stream[k] \notin {0, 255}

IsPrefix(s, t) == Len(s) <= Len(t) /\ SubSeq(t, 1, Len(s)) = s

\* C9: for a table with two or more nonzero entries generate_codes gives a
\* non-empty code to exactly the byte values that occur, no code is a prefix
\* of another, and the code lengths satisfy Kraft's equality.
PrefixFreeCodeBook ==
    (phase \in {"compressed", "decompressed"} /\ Cardinality(Distinct(in_file)) >= 2)
        => LET used == Distinct(in_file)
               len == [v \in used |-> Len(c_codes[v].bits)]
               D == CHOOSE d \in {len[v] : v \in used} : \A v \in used : len[v] <= d
           IN  /\ {i \in Byte : ~c_codes[i].null} = used
               /\ \A v \in used : len[v] >= 1
               /\ \A v, w \in used :
                      v # w => ~IsPrefix(c_codes[v].bits, c_codes[w].bits)
               /\ SumOver(used, [v \in used |-> Pow2(D - len[v])]) = Pow2(D)

CodeBookOfUnequalLengths ==
    /\ phase = "compressed"
    /\ Cardinality(Distinct(in_file)) >= 3
    /\ \E v, w \in Distinct(in_file) : Len(c_codes[v].bits) < Len(c_codes[w].bits)

\* the tree below node n: <<"leaf", ch>> or <<"node", left, right>>
RECURSIVE Shape(_, _)
Shape(nodes, n) ==
    IF nodes[n].left = NULL /\ nodes[n].right = NULL
    THEN <<"leaf", nodes[n].ch>>
    ELSE <<"node", Shape(nodes, nodes[n].left), Shape(nodes, nodes[n].right)>>

WriteFailuresAreTerminal ==
    /\ (phase \in {"compressed", "decompressed"} /\ c_wfail) => c_ret = 0
    /\ (phase = "decompressed" /\ d_wfail) => d_ret = 0

\* C12: decoding a produced blob (input with two or more distinct byte
\* values, total code length L) consumes exactly the L data bits of the
\* bitstream in the order they were written; no padding position of the last
\* byte is returned by bitreader_read_bit and used for a descent.
PaddingNeverInterpreted ==
    (phase = "decompressed" /\ tamper = "none" /\ c_ret = 1
        /\ Cardinality(Distinct(in_file)) >= 2)
        => LET written == CodeBits(in_file, c_codes)
           IN  /\ Len(d_bits) = Len(written)
               /\ \A k \in 1 .. Len(d_bits) :
                      /\ d_bits[k].at = k - 1
                      /\ d_bits[k].at < Len(written)
                      /\ d_bits[k].bit = written[k]

\* the byte values with a nonzero frequency
NonZero(frequencies) == {i \in Byte : frequencies[i] > 0}

\* the nodes stored in a heap
HeapSet(h) == {h.data[j] : j \in 1 .. h.size}

\* the leaves created so far are those of the least byte values with a
\* nonzero frequency, created and inserted in ascending byte-value order
LeavesAscending ==
    t_pc \in {"leaves", "combine", "done"} =>
        LET k == Cardinality(NonZero(t_freq))
            m == IF Len(t_st.nodes) < k THEN Len(t_st.nodes) ELSE k
        IN  /\ \A j \in 1 .. m :
                   /\ t_st.nodes[j].ch \in NonZero(t_freq)
                   /\ t_st.nodes[j].freq = t_freq[t_st.nodes[j].ch]
                   /\ t_st.nodes[j].left = NULL /\ t_st.nodes[j].right = NULL
                   /\ Cardinality({i \in NonZero(t_freq) : i < t_st.nodes[j].ch}) = j - 1
            /\ t_pc = "leaves" =>
                   /\ Len(t_st.nodes) <= k
                   /\ HeapSet(t_st.heap) = 1 .. Len(t_st.nodes)
                   /\ \A i \in NonZero(t_freq) :
                          (i < t_i) <=> (\E j \in 1 .. m : t_st.nodes[j].ch = i)
            /\ t_pc = "combine" => Len(t_st.nodes) >= k

\* a table with k >= 2 nonzero entries is combined in exactly k - 1 merges
MergeCount ==
    (t_pc = "done" /\ Cardinality(NonZero(t_freq)) >= 2) =>
        /\ Len(t_st.nodes) - Cardinality(NonZero(t_freq))
               = Cardinality(NonZero(t_freq)) - 1
        /\ t_st.heap.size = 0

\* one merge: a and b are the two minimum-weight nodes of the heap, they are
\* replaced in it by a new node of weight a.weight + b.weight, left a, right b
MergeTakesTwoSmallest ==
    (t_pc = "combine" /\ t_pc' = "combine" /\ t_st' # t_st) =>
        LET before == HeapSet(t_st.heap)
            a == t_st'.left
            b == t_st'.right
            parent == Len(t_st.nodes) + 1
            w == [n \in 1 .. Len(t_st.nodes) |-> t_st.nodes[n].freq]
        IN  /\ a \in before /\ b \in before /\ a # b
            /\ w[a] <= w[b]
            /\ \A n \in before \ {a, b} : w[b] <= w[n]
            /\ Len(t_st'.nodes) = parent
            /\ SubSeq(t_st'.nodes, 1, Len(t_st.nodes)) = t_st.nodes
            /\ t_st'.nodes[parent].freq = w[a] + w[b]
            /\ t_st'.nodes[parent].left = a
            /\ t_st'.nodes[parent].right = b
            /\ HeapSet(t_st'.heap) = (before \ {a, b}) \cup {parent}

\* C13: for a table with k >= 2 nonzero entries build_huffman_tree inserts
\* the leaves in ascending byte-value order, then performs exactly k - 1
\* merges; each merge extracts the two minimum-weight nodes a, b of the heap
\* (a.weight <= b.weight <= every weight left) and inserts a new node of
\* weight a.weight + b.weight with left child a and right child b.
MergeStep ==
    /\ [](LeavesAscending /\ MergeCount)
    /\ [][MergeTakesTwoSmallest]_vars

FourLeavesMerged ==
    /\ t_pc = "done"
    /\ Cardinality(NonZero(t_freq)) = 4
    /\ Len(t_st.nodes) = 7
    /\ t_st.nodes[t_st.left].freq = t_st.nodes[t_st.right].freq
    /\ t_st.nodes[t_root].freq = 8

\* every stored node weighs at least as much as its parent
HeapOrdered ==
    /\ Len(h_heap.data) = h_heap.size
    /\ h_heap.size <= h_heap.capacity
    /\ \A idx \in 1 .. (h_heap.size - 1) :
           h_nodes[h_heap.data[((idx - 1) \div 2) + 1]].freq
               <= h_nodes[h_heap.data[idx + 1]].freq

\* heap_insert adds the node and nothing else
InsertAddsTheNode ==
    (h_calls' = h_calls + 1 /\ h_op' = "insert") =>
        /\ HeapSet(h_heap') = HeapSet(h_heap) \cup {Len(h_nodes')}
        /\ h_heap'.size = h_heap.size + 1

\* heap_extract_min removes and returns a node of least weight and keeps the
\* others; on an empty heap it returns NULL and changes nothing
ExtractReturnsMinimum ==
    (h_calls' = h_calls + 1 /\ h_op' = "extract") =>
        IF h_heap.size = 0
        THEN h_min' = NULL /\ h_heap' = h_heap
        ELSE /\ h_min' \in HeapSet(h_heap)
             /\ \A n \in HeapSet(h_heap) : h_nodes[h_min'].freq <= h_nodes[n].freq
             /\ HeapSet(h_heap') = HeapSet(h_heap) \ {h_min'}
             /\ h_heap'.size = h_heap.size - 1

\* C14: after any sequence of heap_insert and heap_extract_min calls every
\* stored node's weight is >= its parent's weight; heap_extract_min removes
\* and returns a node whose weight is <= the weight of every node remaining,
\* the other nodes staying; on an empty heap it returns NULL and leaves the
\* heap unchanged.
MinHeapInvariant ==
    /\ []HeapOrdered
    /\ [][InsertAddsTheNode /\ ExtractReturnsMinimum]_vars

HeapGrownAndDrained ==
    /\ h_calls = 6
    /\ h_op = "extract"
    /\ h_heap.capacity > 2
    /\ h_heap.capacity # 6
    /\ h_heap.size = 2
    /\ h_nodes[h_min].freq = 1
    /\ h_nodes[h_heap.data[1]].freq = 2

IsLeaf(nodes, n) == nodes[n].left = NULL /\ nodes[n].right = NULL

\* the nodes of the tree below and including node n
RECURSIVE Subtree(_, _)
Subtree(nodes, n) ==
    IF n = NULL THEN {}
    ELSE {n} \cup Subtree(nodes, nodes[n].left) \cup Subtree(nodes, nodes[n].right)

\* the tree of k >= 2 leaves rooted at root: strictly binary, one leaf per
\* byte value with a nonzero frequency, weights adding up
StrictlyBinary(frequencies, nodes, root) ==
    LET k == Cardinality(NonZero(frequencies))
        sub == Subtree(nodes, root)
        leaves == {n \in sub : IsLeaf(nodes, n)}
        internals == sub \ leaves
        parents(n) == {q \in internals : nodes[q].left = n \/ nodes[q].right = n}
    IN  /\ root # NULL
        /\ Cardinality(leaves) = k
        /\ {nodes[n].ch : n \in leaves} = NonZero(frequencies)
        /\ \A n \in leaves : nodes[n].freq = frequencies[nodes[n].ch]
        /\ Cardinality(internals) = k - 1
        /\ \A n \in internals :
               /\ nodes[n].left # NULL
               /\ nodes[n].right # NULL
               /\ nodes[n].left # nodes[n].right
               /\ nodes[n].freq = nodes[nodes[n].left].freq + nodes[nodes[n].right].freq
        /\ parents(root) = {}
        /\ \A n \in sub \ {root} : Cardinality(parents(n)) = 1
        /\ nodes[root].freq = SumOver(NonZero(frequencies), frequencies)

\* C15: build_huffman_tree returns NULL when no entry is nonzero, a single
\* leaf when exactly one is, and otherwise a strictly binary tree with
\* exactly k leaves (one per byte value with a nonzero frequency, weighing
\* its frequency) and k - 1 internal nodes of two children each, weighing the
\* sum of their children, so that the root weighs the sum of all frequencies.
TreeShape ==
    t_pc = "done" =>
        LET k == Cardinality(NonZero(t_freq))
        IN  /\ k = 0 => t_root = NULL
            /\ k = 1 => /\ t_root # NULL
                        /\ IsLeaf(t_st.nodes, t_root)
                        /\ NonZero(t_freq) = {t_st.nodes[t_root].ch}
                        /\ t_st.nodes[t_root].freq = t_freq[t_st.nodes[t_root].ch]
            /\ k >= 2 => StrictlyBinary(t_freq, t_st.nodes, t_root)

FiveLeafTreeBuilt ==
    /\ t_pc = "done"
    /\ Cardinality(NonZero(t_freq)) = 5
    /\ t_root # NULL
    /\ IsLeaf(t_st.nodes, t_st.nodes[t_root].left)
    /\ ~IsLeaf(t_st.nodes, t_st.nodes[t_root].right)
    /\ t_st.nodes[t_root].freq = 7

\* C16: for every table with k nonzero entries (2 <= k <= 256) every code
\* generate_codes produces has a length between 1 and k - 1 (at most 255), so
\* the index generate_codes_recursive writes at (the depth, at most the code
\* length, where the terminating NUL goes) stays inside the 512-byte buffer.
BoundedCodeLength ==
    (t_pc = "done" /\ Cardinality(NonZero(t_freq)) >= 2) =>
        LET k == Cardinality(NonZero(t_freq))
        IN  /\ k <= NumSymbols
            /\ \A v \in NonZero(t_freq) :
                   /\ ~t_codes[v].null
                   /\ Len(t_codes[v].bits) >= 1
                   /\ Len(t_codes[v].bits) <= k - 1
                   /\ Len(t_codes[v].bits) <= NumSymbols - 1
                   /\ Len(t_codes[v].bits) < BufferSize

LongestCodeGenerated ==
    /\ t_pc = "done"
    /\ Cardinality(NonZero(t_freq)) = 4
    /\ \E v \in NonZero(t_freq) : Len(t_codes[v].bits) = 3
    /\ \E v \in NonZero(t_freq) : Len(t_codes[v].bits) = 1

\* the number of bits a decoding loop has taken from the bitstream
ConsumedBits(st) == BitsPerByte * st.br.pos - st.br.bit_count

\* an iteration takes exactly one bit, or finds the bitstream exhausted and
\* ends the loop
IterationConsumesOneBit ==
    (d_pc = "loop" /\ d_pc' = "loop" /\ d_st' # d_st) =>
        \/ /\ ~d_st'.eof
           /\ ConsumedBits(d_st') = ConsumedBits(d_st) + 1
           /\ Len(d_st'.bits) = Len(d_st.bits) + 1
           /\ Len(d_st'.data) \in {Len(d_st.data), Len(d_st.data) + 1}
        \/ /\ d_st'.eof
           /\ ConsumedBits(d_st) = BitsPerByte * Len(huf_file.stream)
           /\ ConsumedBits(d_st') = ConsumedBits(d_st)
           /\ d_st'.data = d_st.data

\* the loop runs until total_chars symbols are written or the bitstream is
\* exhausted, and no longer
LoopEndsInTime ==
    /\ d_pc = "loop" =>
           /\ Len(d_st.data) <= d_pre.total_chars
           /\ ConsumedBits(d_st) <= BitsPerByte * Len(huf_file.stream)
           /\ Len(d_st.bits) = ConsumedBits(d_st)
    /\ (d_pc = "returned" /\ ~d_pre.returned) =>
           /\ d_ret \in {0, 1}
           /\ \/ ~d_st.eof /\ Len(d_st.data) = d_pre.total_chars
              \/ /\ d_st.eof
                 /\ Len(d_st.data) < d_pre.total_chars
                 /\ ConsumedBits(d_st) = BitsPerByte * Len(huf_file.stream)

\* C17: for every file with a complete header (any count, any frequencies,
\* any finite bitstream) decompress_file eventually returns; each iteration
\* of its decoding loop consumes exactly one bit, and the loop ends when
\* total_chars symbols are written or the bitstream is exhausted, whichever
\* comes first.
DecodingTerminates ==
    /\ <>(d_pc = "returned" /\ d_ret \in {0, 1})
    /\ []LoopEndsInTime
    /\ [][IterationConsumesOneBit]_vars

BitstreamExhausted ==
    /\ d_pc = "returned"
    /\ d_st.eof
    /\ Len(d_st.bits) = 8
    /\ Len(d_st.data) = 4
    /\ d_pre.total_chars = 5
    /\ d_ret = 0

\* C18: for every complete header, also one compress_file cannot write (the
\* frequencies not adding up to the count, a count of 0), the node the
\* decoding loop stands on when it reads a bit is an internal node with two
\* non-NULL children, so that no NULL node and no NULL root is dereferenced;
\* an all-zero table with a count above 0 is rejected before decoding.
NullSafeDecoding ==
    /\ ~d_st.crashed
    /\ (d_pc = "loop" /\ decode_running(d_st, d_pre.total_chars)) =>
           /\ d_tree.root # NULL
           /\ d_st.node # NULL
           /\ d_tree.nodes[d_st.node].left # NULL
           /\ d_tree.nodes[d_st.node].right # NULL
    /\ d_pc = "returned" => d_ret \in {0, 1}
    /\ (d_pc # "idle" /\ huf_file.hdr[1] > 0
           /\ \A k \in 2 .. HeaderWords : huf_file.hdr[k] = 0) =>
           /\ d_pc = "returned"
           /\ d_pre.returned
           /\ d_ret = 0
           /\ ~out_file.exists
           /\ d_bits = <<>>

DescendingUnderOddHeader ==
    /\ d_pc = "loop"
    /\ decode_running(d_st, d_pre.total_chars)
    /\ d_st.node # d_tree.root
    /\ Len(d_st.data) >= 1
    /\ SumOver({k \in 2 .. HeaderWords : huf_file.hdr[k] > 0}, huf_file.hdr)
           # huf_file.hdr[1]

\* C19: for every input the compress_file of huffman.c and of huffman2.c
\* return the same result and, on success, write byte-identical files; for
\* every compressed file the two decompress_file return the same result and
\* write the same bytes.
CopiesEquivalent ==
    /\ (c_ret # -1 /\ c2_ret # -1) =>
           /\ c2_ret = c_ret
           /\ tamper = "none" => huf2_file = huf_file
    /\ (phase = "decompressed" /\ d2_ret # -1) =>
           /\ d2_ret = d_ret
           /\ out2_file = out_file

BothCopiesRan ==
    /\ in_file = Abracadabra
    /\ c_ret = 1
    /\ c2_ret = 1
    /\ Len(huf2_file.stream) = 3
    /\ tamper = "overwritten_bitstream"
    /\ phase = "decompressed"
    /\ d2_ret = 0
    /\ out2_file.exists

====
